---- MODULE Spec2Model ----
(***************************************************************************)
(* A model of src/main.ts: the message normalizer (handleChatMessage), the *)
(* stream reducer (collectStreamData) and the request handler              *)
(* (handleRequest, reached through handler).                               *)
(*                                                                         *)
(* JavaScript strings are sequences of atoms.  An atom is a character, or  *)
(* a run of characters that no operation of the program looks inside       *)
(* ("user", "call_1").  The whitespace atoms are what String.trim removes. *)
(***************************************************************************)
EXTENDS Integers, Sequences, FiniteSets, TLC

\* ------------------------------------------------------------------ bounds
\* longest message list handed to handleChatMessage
MaxMsgs == 2
\* most lines of an upstream stream
MaxLines == 3

VARIABLES
    nmessages,   \* handleChatMessage: the argument `messages`
    npc,         \* handleChatMessage: "call", "returned" or "threw"
    nresult,     \* handleChatMessage: the returned sequence
    stream,      \* the upstream body: every byte it will deliver, in order
    pos,         \* how many bytes of `stream` the reads have delivered
    rpc,         \* collectStreamData: "idle", "call", "reading", "returned", "threw"
    locked,      \* whether a reader holds the lock of the upstream body
    pending,     \* the TextDecoder's state: bytes of an unfinished character
    acc,         \* the locals content, model, id, created, finishReason, toolCalls, usage
    doc,         \* the document collectStreamData returned
    now,         \* Date.now(), in milliseconds
    t0,          \* history: Date.now() when collectStreamData was called
    seen,        \* history: what became of each `data: ` line the loop met
    request,     \* the inbound request
    hpc,         \* handleRequest: "start", "fetching", "collecting", "responded"
    isStream,    \* handleRequest: the local isStream
    outbound,    \* the request handed to fetch
    response,    \* the response to the inbound request
    aborted,     \* request.signal.aborted: the client has gone away
    lateReads    \* history: the reads delivered since the abort, up to 2

nvars == <<nmessages, npc, nresult>>
rvars == <<stream, pos, rpc, locked, pending, acc, doc, now, t0, seen, lateReads>>
hvars == <<request, hpc, isStream, outbound, response, aborted>>
vars == <<nmessages, npc, nresult, stream, pos, rpc, locked, pending, acc, doc,
          now, t0, seen, lateReads, request, hpc, isStream, outbound, response,
          aborted>>

\* ------------------------------------------------------- JavaScript values
\* A scalar value: undefined, null, a string, a number, or some plain object.
Undef == [t |-> "undefined", s |-> <<>>, n |-> 0]
Null == [t |-> "null", s |-> <<>>, n |-> 0]
Str(s) == [t |-> "string", s |-> s, n |-> 0]
Num(n) == [t |-> "number", s |-> <<>>, n |-> n]
Obj == [t |-> "object", s |-> <<>>, n |-> 0]

\* JavaScript truthiness, as `if (v)`, `!v`, `a && b`, `a || b` read it.
Truthy(v) ==
    CASE v.t = "undefined" -> FALSE
      [] v.t = "null" -> FALSE
      [] v.t = "string" -> v.s # <<>>
      [] v.t = "number" -> v.n # 0
      [] OTHER -> TRUE

IsSpace(c) == c \in {" ", "\n", "\r"}

RECURSIVE TrimStart(_)
TrimStart(s) ==
    IF s = <<>> THEN s
    ELSE IF IsSpace(Head(s)) THEN TrimStart(Tail(s)) ELSE s

RECURSIVE TrimEnd(_)
TrimEnd(s) ==
    IF s = <<>> THEN s
    ELSE IF IsSpace(s[Len(s)]) THEN TrimEnd(SubSeq(s, 1, Len(s) - 1)) ELSE s

\* String.prototype.trim
Trim(s) == TrimEnd(TrimStart(s))

\* ----------------------------------------------------- handleChatMessage
\* A content value: a scalar, or an array of items.
Scalar(v) == [t |-> v.t, s |-> v.s, n |-> v.n, items |-> <<>>]
Arr(items) == [t |-> "array", s |-> <<>>, n |-> 0, items |-> items]

\* An element of a content array: null, or an object with `type` and `text`.
NullItem == [t |-> "null", type |-> Undef, text |-> Undef]
Item(type, text) == [t |-> "object", type |-> type, text |-> text]

\* An element of `messages`: null, or an object with `role`, `content` and
\* one more member, `name`, that handleChatMessage never looks at.
NullMessage ==
    [t |-> "null", role |-> Undef, content |-> Scalar(Undef), name |-> Undef]
Message(role, content) ==
    [t |-> "object", role |-> role, content |-> content, name |-> Undef]
Named(message, name) == [message EXCEPT !.name = Str(name)]

\* item && item.type === 'text' && item.text && item.text.trim()
\* calls .trim on a truthy text that is no string: a TypeError.
ItemThrows(item) ==
    /\ item.t # "null"
    /\ item.type = Str(<<"text">>)
    /\ Truthy(item.text)
    /\ item.text.t # "string"

ItemValid(item) ==
    /\ item.t # "null"
    /\ item.type = Str(<<"text">>)
    /\ Truthy(item.text)
    /\ item.text.t = "string"
    /\ Trim(item.text.s) # <<>>

\* message.content.filter(...).map(item => ({...item, text: item.text.trim()}))
RECURSIVE ValidContent(_)
ValidContent(items) ==
    IF items = <<>> THEN <<>>
    ELSE IF ItemValid(Head(items))
         THEN <<[Head(items) EXCEPT !.text = Str(Trim(Head(items).text.s))]>>
                  \o ValidContent(Tail(items))
         ELSE ValidContent(Tail(items))

ContentThrows(content) ==
    /\ content.t = "array"
    /\ \E i \in 1..Len(content.items) : ItemThrows(content.items[i])

\* One turn of the loop over `messages`: "skip" (continue), "throw", or
\* "push" with the fixed message.
FixMessage(message) ==
    IF message.t = "null" \/ (~Truthy(message.content) /\ ~Truthy(message.role))
    THEN [act |-> "skip", msg |-> message]
    ELSE IF Truthy(message.content) /\ message.content.t = "string"
    THEN IF Trim(message.content.s) # <<>>
         THEN [act |-> "push",
               msg |-> [message EXCEPT !.content =
                   Arr(<<Item(Str(<<"text">>), Str(Trim(message.content.s)))>>)]]
         ELSE [act |-> "skip", msg |-> message]
    ELSE IF message.content.t = "array"
    THEN IF ContentThrows(message.content)
         THEN [act |-> "throw", msg |-> message]
         ELSE IF ValidContent(message.content.items) = <<>>
         THEN [act |-> "skip", msg |-> message]
         ELSE [act |-> "push",
               msg |-> [message EXCEPT !.content =
                   Arr(ValidContent(message.content.items))]]
    ELSE IF ~Truthy(message.content)
    THEN [act |-> "skip", msg |-> message]
    ELSE [act |-> "push", msg |-> message]

\* FixedMessages with unshift for push at line 287.
RECURSIVE FixedMessagesUnshift(_, _)
FixedMessagesUnshift(messages, fixedMessages) ==
    IF messages = <<>> THEN [threw |-> FALSE, value |-> fixedMessages]
    ELSE LET f == FixMessage(Head(messages)) IN
         IF f.act = "throw" THEN [threw |-> TRUE, value |-> <<>>]
         ELSE IF f.act = "push"
         THEN FixedMessagesUnshift(Tail(messages), <<f.msg>> \o fixedMessages)
         ELSE FixedMessagesUnshift(Tail(messages), fixedMessages)

\* The loop of lines 250-288: the messages that survive, or a throw.
RECURSIVE FixedMessages(_, _)
FixedMessages(messages, fixedMessages) ==
    IF messages = <<>> THEN [threw |-> FALSE, value |-> fixedMessages]
    ELSE LET f == FixMessage(Head(messages)) IN
         IF f.act = "throw" THEN [threw |-> TRUE, value |-> <<>>]
         ELSE IF f.act = "push"
         THEN FixedMessages(Tail(messages), Append(fixedMessages, f.msg))
         ELSE FixedMessages(Tail(messages), fixedMessages)

DefaultSystemMessage ==
    Message(Str(<<"system">>),
            Arr(<<Item(Str(<<"text">>), Str(<<"You are a helpful assistant.">>))>>))

\* AddSystemMessage with the default system message put last.
AddSystemMessageLast(fixedMessages) ==
    IF Len(fixedMessages) = 1 /\ fixedMessages[1].role # Str(<<"system">>)
    THEN fixedMessages \o <<DefaultSystemMessage>>
    ELSE fixedMessages

\* Lines 290-306: a sole survivor that is no system message gets the default
\* system message put before it.
AddSystemMessage(fixedMessages) ==
    IF Len(fixedMessages) = 1 /\ fixedMessages[1].role # Str(<<"system">>)
    THEN <<DefaultSystemMessage>> \o fixedMessages
    ELSE fixedMessages

\* `messages` is a JavaScript value: an array of messages, or undefined, over
\* which `for ... of` throws.
MessageList(list) == [t |-> "array", list |-> list]
NoMessageList == [t |-> "undefined", list |-> <<>>]

handleChatMessage(messages) ==
    IF messages.t # "array" THEN [threw |-> TRUE, value |-> <<>>]
    ELSE LET r == FixedMessages(messages.list, <<>>) IN
         IF r.threw THEN r
         ELSE [threw |-> FALSE, value |-> AddSystemMessage(r.value)]

\* ------------------------------------------------- inputs of the normalizer
ItemPalette ==
    { NullItem,
      Item(Str(<<"text">>), Str(<<"a">>)),
      Item(Str(<<"text">>), Str(<<" ", "b", " ">>)),
      Item(Str(<<"text">>), Str(<<" ">>)),
      Item(Str(<<"text">>), Undef),
      Item(Str(<<"text">>), Num(7)),
      Item(Str(<<"image">>), Str(<<"a">>)) }

ContentPalette ==
    { Scalar(Undef), Scalar(Str(<<>>)), Scalar(Str(<<" ">>)),
      Scalar(Str(<<" ", "a", " ">>)), Scalar(Num(7)), Scalar(Obj), Arr(<<>>) }
    \cup { Arr(<<i>>) : i \in ItemPalette }
    \cup { Arr(<<Item(Str(<<"text">>), Str(<<" ", "b", " ">>)), i>>) :
             i \in ItemPalette }

RolePalette == { Undef, Str(<<"user">>), Str(<<"system">>) }

MessagePalette ==
    { NullMessage } \cup { Message(r, c) : r \in RolePalette, c \in ContentPalette }
    \cup { Named(Message(Str(<<"user">>), Scalar(Str(<<" ", "a", " ">>))), <<"n1">>),
           Named(Message(Str(<<"system">>),
                         Arr(<<Item(Str(<<"text">>), Str(<<" ", "b", " ">>))>>)),
                 <<"n2">>),
           Named(Message(Undef, Scalar(Undef)), <<"n3">>) }

SeqsUpTo(S, n) == UNION { [1..k -> S] : k \in 0..n }

MessageLists ==
    { NoMessageList } \cup { MessageList(l) : l \in SeqsUpTo(MessagePalette, MaxMsgs) }

\* ----------------------------------------------------- collectStreamData
\* What JSON.parse makes of one `data: ` payload: the fields the reducer reads.
NoUsage ==
    [t |-> "undefined", prompt_tokens |-> 0, completion_tokens |-> 0, total_tokens |-> 0]
Usage(p, c, tot) ==
    [t |-> "object", prompt_tokens |-> p, completion_tokens |-> c, total_tokens |-> tot]

NoFunction == [t |-> "undefined", name |-> Undef, arguments |-> Undef]
Function(name, arguments) == [t |-> "object", name |-> name, arguments |-> arguments]

\* An element of delta.tool_calls.
ToolCall(index, id, type, function) ==
    [index |-> index, id |-> id, type |-> type, function |-> function]

NoDelta == [t |-> "undefined", content |-> Undef, tool_calls |-> <<>>]
Delta(content, tool_calls) ==
    [t |-> "object", content |-> content, tool_calls |-> tool_calls]

NullChoice == [t |-> "null", delta |-> NoDelta, finish_reason |-> Undef]
Choice(delta, finish_reason) ==
    [t |-> "object", delta |-> delta, finish_reason |-> finish_reason]

EmptyParsed ==
    [id |-> Undef, model |-> Undef, created |-> Undef, usage |-> NoUsage,
     choices |-> <<>>]

\* String(v), as `+=` on a string applies it to its right operand.
JSToString(v) ==
    CASE v.t = "string" -> v.s
      [] v.t = "number" -> <<ToString(v.n)>>
      [] v.t = "null" -> <<"null">>
      [] v.t = "undefined" -> <<"undefined">>
      [] OTHER -> <<"[object Object]">>

\* a || ''
OrEmpty(v) == IF Truthy(v) THEN v ELSE Str(<<>>)

\* Lines 133-143: the locals before the first read.
InitAcc(seconds) ==
    [content |-> <<>>, model |-> Str(<<>>), id |-> Str(<<>>),
     created |-> Num(seconds), finishReason |-> Str(<<"stop">>),
     toolCalls |-> <<>>, usage |-> Usage(0, 0, 0)]

\* A JavaScript array with holes: position k holds the element of index k - 1.
Hole == [t |-> "hole", id |-> Undef, type |-> Undef, function |-> NoFunction]

\* toolCalls[toolIndex] = currentToolCall
SetAt(toolCalls, toolIndex, currentToolCall) ==
    LET length ==
            IF toolIndex + 1 > Len(toolCalls) THEN toolIndex + 1 ELSE Len(toolCalls)
    IN  [k \in 1..length |->
            IF k = toolIndex + 1 THEN currentToolCall
            ELSE IF k <= Len(toolCalls) THEN toolCalls[k] ELSE Hole]

\* toolCalls[toolIndex] is truthy
HasAt(toolCalls, toolIndex) ==
    toolIndex + 1 <= Len(toolCalls) /\ toolCalls[toolIndex + 1].t # "hole"

\* ApplyToolCall with `=` for `+=` at line 198.
ApplyToolCallAssign(toolCalls, toolCall) ==
    LET toolIndex == IF Truthy(toolCall.index) THEN toolCall.index.n ELSE 0 IN
    IF Truthy(toolCall.id) /\ Truthy(toolCall.type) /\ toolCall.function.t = "object"
    THEN SetAt(toolCalls, toolIndex,
               [t |-> "object", id |-> toolCall.id, type |-> toolCall.type,
                function |-> Function(OrEmpty(toolCall.function.name),
                                      OrEmpty(toolCall.function.arguments))])
    ELSE IF HasAt(toolCalls, toolIndex) /\ toolCall.function.t = "object"
    THEN LET cur == toolCalls[toolIndex + 1].function
             arguments ==
                 IF toolCall.function.arguments.t # "undefined"
                 THEN Str(JSToString(toolCall.function.arguments))
                 ELSE cur.arguments
             name ==
                 IF Truthy(toolCall.function.name)
                 THEN toolCall.function.name ELSE cur.name
         IN  [toolCalls EXCEPT ![toolIndex + 1].function = Function(name, arguments)]
    ELSE toolCalls

\* ApplyToolCall with a start delta at a started index keeping the arguments
\* gathered there.
ApplyToolCallKeep(toolCalls, toolCall) ==
    LET toolIndex == IF Truthy(toolCall.index) THEN toolCall.index.n ELSE 0 IN
    IF Truthy(toolCall.id) /\ Truthy(toolCall.type) /\ toolCall.function.t = "object"
    THEN SetAt(toolCalls, toolIndex,
               [t |-> "object", id |-> toolCall.id, type |-> toolCall.type,
                function |->
                    Function(OrEmpty(toolCall.function.name),
                             IF HasAt(toolCalls, toolIndex)
                             THEN Str(toolCalls[toolIndex + 1].function.arguments.s
                                      \o OrEmpty(toolCall.function.arguments).s)
                             ELSE OrEmpty(toolCall.function.arguments))])
    ELSE IF HasAt(toolCalls, toolIndex) /\ toolCall.function.t = "object"
    THEN LET cur == toolCalls[toolIndex + 1].function
             arguments ==
                 IF toolCall.function.arguments.t # "undefined"
                 THEN Str(JSToString(cur.arguments)
                              \o JSToString(toolCall.function.arguments))
                 ELSE cur.arguments
             name ==
                 IF Truthy(toolCall.function.name)
                 THEN toolCall.function.name ELSE cur.name
         IN  [toolCalls EXCEPT ![toolIndex + 1].function = Function(name, arguments)]
    ELSE toolCalls

\* ApplyToolCall with a fragment for an index that has no tool call opening
\* one there.
ApplyToolCallCreate(toolCalls, toolCall) ==
    LET toolIndex == IF Truthy(toolCall.index) THEN toolCall.index.n ELSE 0 IN
    IF Truthy(toolCall.id) /\ Truthy(toolCall.type) /\ toolCall.function.t = "object"
    THEN SetAt(toolCalls, toolIndex,
               [t |-> "object", id |-> toolCall.id, type |-> toolCall.type,
                function |-> Function(OrEmpty(toolCall.function.name),
                                      OrEmpty(toolCall.function.arguments))])
    ELSE IF HasAt(toolCalls, toolIndex) /\ toolCall.function.t = "object"
    THEN LET cur == toolCalls[toolIndex + 1].function
             arguments ==
                 IF toolCall.function.arguments.t # "undefined"
                 THEN Str(JSToString(cur.arguments)
                              \o JSToString(toolCall.function.arguments))
                 ELSE cur.arguments
             name ==
                 IF Truthy(toolCall.function.name)
                 THEN toolCall.function.name ELSE cur.name
         IN  [toolCalls EXCEPT ![toolIndex + 1].function = Function(name, arguments)]
    ELSE IF toolCall.function.t = "object"
    THEN SetAt(toolCalls, toolIndex,
               [t |-> "object", id |-> Str(<<>>), type |-> Str(<<"function">>),
                function |-> Function(OrEmpty(toolCall.function.name),
                                      OrEmpty(toolCall.function.arguments))])
    ELSE toolCalls

\* Lines 182-203: one element of delta.tool_calls merged into toolCalls.
ApplyToolCall(toolCalls, toolCall) ==
    LET toolIndex == IF Truthy(toolCall.index) THEN toolCall.index.n ELSE 0 IN
    IF Truthy(toolCall.id) /\ Truthy(toolCall.type) /\ toolCall.function.t = "object"
    THEN SetAt(toolCalls, toolIndex,
               [t |-> "object", id |-> toolCall.id, type |-> toolCall.type,
                function |-> Function(OrEmpty(toolCall.function.name),
                                      OrEmpty(toolCall.function.arguments))])
    ELSE IF HasAt(toolCalls, toolIndex) /\ toolCall.function.t = "object"
    THEN LET cur == toolCalls[toolIndex + 1].function
             arguments ==
                 IF toolCall.function.arguments.t # "undefined"
                 THEN Str(JSToString(cur.arguments)
                              \o JSToString(toolCall.function.arguments))
                 ELSE cur.arguments
             name ==
                 IF Truthy(toolCall.function.name)
                 THEN toolCall.function.name ELSE cur.name
         IN  [toolCalls EXCEPT ![toolIndex + 1].function = Function(name, arguments)]
    ELSE toolCalls

\* Line 181: for (const toolCall of choice.delta.tool_calls)
RECURSIVE ApplyToolCalls(_, _)
ApplyToolCalls(toolCalls, deltas) ==
    IF deltas = <<>> THEN toolCalls
    ELSE ApplyToolCalls(ApplyToolCall(toolCalls, Head(deltas)), Tail(deltas))

\* ApplyChoice with `=` for `+=` at line 176.
ApplyChoiceAssign(a, choice) ==
    LET content ==
            IF choice.delta.t = "object" /\ Truthy(choice.delta.content)
            THEN JSToString(choice.delta.content) ELSE a.content
        toolCalls ==
            IF choice.delta.t = "object" /\ Len(choice.delta.tool_calls) > 0
            THEN ApplyToolCalls(a.toolCalls, choice.delta.tool_calls) ELSE a.toolCalls
        finishReason ==
            IF Truthy(choice.finish_reason) THEN choice.finish_reason ELSE a.finishReason
    IN  [a EXCEPT !.content = content, !.toolCalls = toolCalls,
                  !.finishReason = finishReason]

\* ApplyChoice with the content started afresh when tool calls arrive.
ApplyChoiceReset(a, choice) ==
    LET content ==
            IF choice.delta.t = "object" /\ Len(choice.delta.tool_calls) > 0
            THEN <<>>
            ELSE IF choice.delta.t = "object" /\ Truthy(choice.delta.content)
            THEN a.content \o JSToString(choice.delta.content) ELSE a.content
        toolCalls ==
            IF choice.delta.t = "object" /\ Len(choice.delta.tool_calls) > 0
            THEN ApplyToolCalls(a.toolCalls, choice.delta.tool_calls) ELSE a.toolCalls
        finishReason ==
            IF Truthy(choice.finish_reason) THEN choice.finish_reason ELSE a.finishReason
    IN  [a EXCEPT !.content = content, !.toolCalls = toolCalls,
                  !.finishReason = finishReason]

\* Lines 171-210: choices[0] merged into the locals.
ApplyChoice(a, choice) ==
    LET content ==
            IF choice.delta.t = "object" /\ Truthy(choice.delta.content)
            THEN a.content \o JSToString(choice.delta.content) ELSE a.content
        toolCalls ==
            IF choice.delta.t = "object" /\ Len(choice.delta.tool_calls) > 0
            THEN ApplyToolCalls(a.toolCalls, choice.delta.tool_calls) ELSE a.toolCalls
        finishReason ==
            IF Truthy(choice.finish_reason) THEN choice.finish_reason ELSE a.finishReason
    IN  [a EXCEPT !.content = content, !.toolCalls = toolCalls,
                  !.finishReason = finishReason]

\* ApplyParsed with the first id kept: line 164 as `if (!id && parsed.id)`.
ApplyParsedFirstId(a, parsed) ==
    LET b == [a EXCEPT
                 !.id = IF ~Truthy(a.id) /\ Truthy(parsed.id) THEN parsed.id ELSE a.id,
                 !.model = IF Truthy(parsed.model) THEN parsed.model ELSE a.model,
                 !.created = IF Truthy(parsed.created) THEN parsed.created ELSE a.created,
                 !.usage = IF parsed.usage.t = "object" THEN parsed.usage ELSE a.usage]
    IN  IF Len(parsed.choices) > 0 /\ parsed.choices[1].t = "object"
        THEN ApplyChoice(b, parsed.choices[1]) ELSE b

\* Lines 164-210: one parsed object merged into the locals.
ApplyParsed(a, parsed) ==
    LET b == [a EXCEPT
                 !.id = IF Truthy(parsed.id) THEN parsed.id ELSE a.id,
                 !.model = IF Truthy(parsed.model) THEN parsed.model ELSE a.model,
                 !.created = IF Truthy(parsed.created) THEN parsed.created ELSE a.created,
                 !.usage = IF parsed.usage.t = "object" THEN parsed.usage ELSE a.usage]
    IN  IF Len(parsed.choices) > 0 /\ parsed.choices[1].t = "object"
        THEN ApplyChoice(b, parsed.choices[1]) ELSE b

\* ------------------------------------------------------------- the wire
\* The upstream body is a sequence of bytes; an atom stands for the bytes of
\* one piece of text.  The text between the braces of a payload is one atom,
\* and JsonMembers says which object JSON.parse makes of it.
ContentDelta(s) ==
    [EmptyParsed EXCEPT !.choices = <<Choice(Delta(Str(s), <<>>), Undef)>>]
ToolDelta(toolCalls) ==
    [EmptyParsed EXCEPT !.choices = <<Choice(Delta(Undef, toolCalls), Undef)>>]

JsonMembers ==
    ("content:Hel" :> ContentDelta(<<"Hel">>))
    @@ ("content:lo" :> ContentDelta(<<"lo">>))
    @@ ("tools:start" :>
          ToolDelta(<<ToolCall(Num(0), Str(<<"call_1">>), Str(<<"function">>),
                               Function(Str(<<"f">>), Str(<<"{\"a\":">>))),
                      ToolCall(Num(1), Str(<<"call_2">>), Str(<<"function">>),
                               Function(Str(<<"g">>), Undef))>>))
    @@ ("tools:cont" :>
          ToolDelta(<<ToolCall(Undef, Undef, Undef, Function(Undef, Str(<<"1}">>))),
                      ToolCall(Num(1), Undef, Undef, Function(Undef, Str(<<"{}">>)))>>))
    @@ ("meta" :>
          [id |-> Str(<<"cmpl-9">>), model |-> Str(<<"m1">>), created |-> Num(7),
           usage |-> Usage(1, 2, 3),
           choices |-> <<Choice(Delta(Undef, <<>>), Str(<<"length">>))>>])
    \* an id and a usage, nothing else
    @@ ("meta:2" :>
          [EmptyParsed EXCEPT !.id = Str(<<"cmpl-8">>), !.usage = Usage(4, 0, 4)])
    \* id "", model "", created 0 and finish_reason ""
    @@ ("meta:empty" :>
          [id |-> Str(<<>>), model |-> Str(<<>>), created |-> Num(0),
           usage |-> NoUsage,
           choices |-> <<Choice(Delta(Undef, <<>>), Str(<<>>))>>])
    \* a start delta without index
    @@ ("tool:startA" :>
          ToolDelta(<<ToolCall(Undef, Str(<<"call_a">>), Str(<<"function">>),
                               Function(Str(<<"f">>), Str(<<"{">>)))>>))
    \* a start delta at index 0 without name and arguments
    @@ ("tool:startB" :>
          ToolDelta(<<ToolCall(Num(0), Str(<<"call_b">>), Str(<<"function">>),
                               Function(Undef, Undef))>>))
    \* a start delta at index 2
    @@ ("tool:start2" :>
          ToolDelta(<<ToolCall(Num(2), Str(<<"call_c">>), Str(<<"function">>),
                               Function(Str(<<"g">>), Str(<<"[">>)))>>))
    \* fragments for index 0 and for index 2, the second with an id but no type
    @@ ("tool:cont" :>
          ToolDelta(<<ToolCall(Undef, Undef, Undef, Function(Undef, Str(<<"x">>))),
                      ToolCall(Num(2), Str(<<"call_d">>), Undef,
                               Function(Str(<<"h">>), Str(<<"y">>)))>>))
    \* id, type and function at index 0, the id being the empty string
    @@ ("tool:emptyId" :>
          ToolDelta(<<ToolCall(Num(0), Str(<<>>), Str(<<"function">>),
                               Function(Str(<<"k">>), Str(<<"{}">>)))>>))

\* JSON.parse(data): the object, or a SyntaxError.  A payload that parses to
\* something other than an object (a number, null) makes the merge throw at
\* once inside the same try, which comes to the same.
ParseJSON(data) ==
    IF data = <<"{", "}">> THEN [ok |-> TRUE, value |-> EmptyParsed]
    ELSE IF /\ Len(data) = 3
            /\ data[1] = "{"
            /\ data[3] = "}"
            /\ data[2] \in DOMAIN JsonMembers
    THEN [ok |-> TRUE, value |-> JsonMembers[data[2]]]
    ELSE [ok |-> FALSE, value |-> EmptyParsed]

\* The bytes 0xC3 0xA9 are one character; the decoder keeps an unfinished
\* character back for the next call and decodes a stray byte to U+FFFD.
RECURSIVE Utf8(_)
Utf8(bytes) ==
    IF bytes = <<>> THEN <<>>
    ELSE IF Head(bytes) = "0xC3" /\ Len(bytes) >= 2 /\ bytes[2] = "0xA9"
    THEN <<"U+00E9">> \o Utf8(SubSeq(bytes, 3, Len(bytes)))
    ELSE IF Head(bytes) \in {"0xC3", "0xA9"}
    THEN <<"U+FFFD">> \o Utf8(Tail(bytes))
    ELSE <<Head(bytes)>> \o Utf8(Tail(bytes))

\* decoder.decode(value, { stream: true })
Decode(held, value) ==
    LET all == held \o value IN
    IF all # <<>> /\ all[Len(all)] = "0xC3"
    THEN [text |-> Utf8(SubSeq(all, 1, Len(all) - 1)), pending |-> <<"0xC3">>]
    ELSE [text |-> Utf8(all), pending |-> <<>>]

\* chunk.split('\n')
RECURSIVE SplitLines(_, _)
SplitLines(text, line) ==
    IF text = <<>> THEN <<line>>
    ELSE IF Head(text) = "\n" THEN <<line>> \o SplitLines(Tail(text), <<>>)
    ELSE SplitLines(Tail(text), Append(line, Head(text)))

\* line.startsWith('data: ')
StartsWithData(line) == Len(line) >= 2 /\ line[1] = "data:" /\ line[2] = " "

\* line.slice(6).trim()
DataOf(line) == Trim(SubSeq(line, 3, Len(line)))

\* What the loop body does with one line: "none" (no `data: ` line), "done"
\* (the [DONE] marker), "failed" (the parse threw) or "merged".
LineOutcome(line) ==
    IF ~StartsWithData(line) THEN [kind |-> "none", parsed |-> EmptyParsed]
    ELSE LET data == DataOf(line) IN
         IF data = <<"[DO", "NE]">> THEN [kind |-> "done", parsed |-> EmptyParsed]
         ELSE LET parsed == ParseJSON(data) IN
              IF parsed.ok THEN [kind |-> "merged", parsed |-> parsed.value]
              ELSE [kind |-> "failed", parsed |-> EmptyParsed]

\* ProcessLine with the catch of line 211 taking the payload for plain text.
ProcessLineRaw(a, line) ==
    IF StartsWithData(line)
    THEN IF DataOf(line) = <<"[DO", "NE]">> THEN a
         ELSE IF ParseJSON(DataOf(line)).ok
              THEN ApplyParsed(a, ParseJSON(DataOf(line)).value)
              ELSE [a EXCEPT !.content = a.content \o DataOf(line)]
    ELSE a

\* Lines 154-214: the body of the loop over the lines of a chunk.
ProcessLine(a, line) ==
    IF StartsWithData(line)
    THEN LET data == DataOf(line) IN
         IF data = <<"[DO", "NE]">> THEN a
         ELSE LET parsed == ParseJSON(data) IN
              IF parsed.ok THEN ApplyParsed(a, parsed.value) ELSE a
    ELSE a

\* ProcessLines with `break` for `continue` at line 158: the marker ends the
\* loop over the lines of its chunk.
RECURSIVE ProcessLinesBreak(_, _)
ProcessLinesBreak(a, lines) ==
    IF lines = <<>> THEN a
    ELSE IF StartsWithData(Head(lines)) /\ DataOf(Head(lines)) = <<"[DO", "NE]">>
    THEN a
    ELSE ProcessLinesBreak(ProcessLine(a, Head(lines)), Tail(lines))

\* Line 153: for (const line of lines)
RECURSIVE ProcessLines(_, _)
ProcessLines(a, lines) ==
    IF lines = <<>> THEN a
    ELSE ProcessLines(ProcessLine(a, Head(lines)), Tail(lines))

\* Lines 150-215: one decoded chunk.
ProcessChunk(a, chunk) == ProcessLines(a, SplitLines(chunk, <<>>))

\* The history of a chunk: the outcome of each of its `data: ` lines.
RECURSIVE Outcomes(_)
Outcomes(lines) ==
    IF lines = <<>> THEN <<>>
    ELSE LET outcome == LineOutcome(Head(lines)) IN
         IF outcome.kind = "none" THEN Outcomes(Tail(lines))
         ELSE <<outcome>> \o Outcomes(Tail(lines))

\* BuildDoc with `content` for `content || null` at line 223.
BuildDocNoNull(a, millis) ==
    [id |-> IF Truthy(a.id) THEN a.id ELSE Str(<<"chatcmpl-", ToString(millis)>>),
     object |-> "chat.completion",
     created |-> a.created,
     model |-> IF Truthy(a.model) THEN a.model ELSE Str(<<"gpt-3.5-turbo">>),
     choices |-> <<[index |-> 0,
                    message |->
                        [role |-> "assistant",
                         content |-> Str(a.content),
                         tool_calls |->
                             IF Len(a.toolCalls) > 0
                             THEN [t |-> "array", items |-> a.toolCalls]
                             ELSE [t |-> "undefined", items |-> <<>>]],
                    finish_reason |-> a.finishReason]>>,
     usage |-> a.usage]

\* Lines 221-242: the document.
BuildDoc(a, millis) ==
    [id |-> IF Truthy(a.id) THEN a.id ELSE Str(<<"chatcmpl-", ToString(millis)>>),
     object |-> "chat.completion",
     created |-> a.created,
     model |-> IF Truthy(a.model) THEN a.model ELSE Str(<<"gpt-3.5-turbo">>),
     choices |-> <<[index |-> 0,
                    message |->
                        [role |-> "assistant",
                         content |-> IF a.content # <<>> THEN Str(a.content) ELSE Null,
                         tool_calls |->
                             IF Len(a.toolCalls) > 0
                             THEN [t |-> "array", items |-> a.toolCalls]
                             ELSE [t |-> "undefined", items |-> <<>>]],
                    finish_reason |-> a.finishReason]>>,
     usage |-> a.usage]

NoDoc == [object |-> "none"]

\* ------------------------------------------------- inputs of the reducer
DataLine(member) == <<"data:", " ", "{", member, "}">>
DoneLine == <<"data:", " ", "[DO", "NE]">>
\* a payload cut short, ending in a two-byte character: no JSON
JunkLine == <<"data:", " ", "{", "0xC3", "0xA9">>

\* The lines the streams of SpecReducer are made of.
LinePalette ==
    { DataLine(m) :
        m \in {"content:Hel", "content:lo", "tools:start", "tools:cont", "meta"} }
    \cup { DoneLine, JunkLine }

RECURSIVE Flatten(_)
Flatten(lines) ==
    IF lines = <<>> THEN <<>>
    ELSE Head(lines) \o <<"\n">> \o Flatten(Tail(lines))

\* Every line ends in a newline, but for the stream that is the marker alone.
Streams == { Flatten(ls) : ls \in SeqsUpTo(LinePalette, MaxLines) } \cup { DoneLine }

\* The lines the streams of SpecToolCalls are made of: tool-call deltas at
\* index 0 and at index 2, none at index 1.
ToolPalette ==
    { DataLine(m) :
        m \in {"tool:startA", "tool:startB", "tool:start2", "tool:cont",
               "tool:emptyId"} }

ToolStreams == { Flatten(ls) : ls \in SeqsUpTo(ToolPalette, MaxLines) }

\* The lines the streams of SpecMetadata are made of.
MetaPalette ==
    { DataLine(m) : m \in {"meta", "meta:2", "meta:empty", "content:Hel"} }
    \cup { JunkLine }

MetaStreams == { Flatten(ls) : ls \in SeqsUpTo(MetaPalette, MaxLines) }

ReducerIdle ==
    /\ stream = <<>>
    /\ pos = 0
    /\ rpc = "idle"
    /\ locked = FALSE
    /\ pending = <<>>
    /\ acc = InitAcc(0)
    /\ doc = NoDoc
    /\ now = 0
    /\ t0 = 0
    /\ seen = <<>>
    /\ lateReads = 0

\* -------------------------------------------------- handler, handleRequest
\* The body of a request, as request.json() reads it: no JSON (a missing or
\* malformed body), the JSON null, or an object with stream, messages, model.
NoJsonBody == [t |-> "invalid", stream |-> Undef, messages |-> NoMessageList,
               model |-> Undef]
NullBody == [t |-> "null", stream |-> Undef, messages |-> NoMessageList,
             model |-> Undef]
Body(streamFlag, messages, model) ==
    [t |-> "object", stream |-> streamFlag, messages |-> messages, model |-> model]

\* JavaScript's true and false
True == [t |-> "boolean", s |-> <<>>, n |-> 1]
False == [t |-> "boolean", s |-> <<>>, n |-> 0]

\* headers.get(name) is null for a header the request does not carry.
Request(method, pathname, headers, body) ==
    [method |-> method, pathname |-> pathname, headers |-> headers, body |-> body]

NoRequest == Request("", <<>>, [authorization |-> Null, xApiKey |-> Null], NoJsonBody)
NoResponse == [status |-> 0, kind |-> "none", message |-> <<>>, type |-> ""]
NoOutbound ==
    [Authorization |-> Null, stream |-> Undef, messages |-> <<>>, model |-> Undef]

HandlerIdle ==
    /\ request = NoRequest
    /\ hpc = "idle"
    /\ isStream = FALSE
    /\ outbound = NoOutbound
    /\ response = NoResponse
    /\ aborted = FALSE

\* Lines 129-143: collectStreamData(stream) takes the reader and sets its locals.
CollectStart ==
    /\ rpc = "call"
    /\ rpc' = "reading"
    /\ locked' = TRUE
    /\ pending' = <<>>
    /\ acc' = InitAcc(now \div 1000)
    /\ t0' = now
    /\ seen' = <<>>
    /\ UNCHANGED <<stream, pos, doc, now, lateReads, nvars, hvars>>

\* Lines 147-215: reader.read() delivers the next bytes, however many the
\* transport chose to hand over, and the loop body folds them in.
Read ==
    /\ rpc = "reading"
    /\ pos < Len(stream)
    /\ \E n \in 1..(Len(stream) - pos) :
          LET value == SubSeq(stream, pos + 1, pos + n)
              d == Decode(pending, value)
              lines == SplitLines(d.text, <<>>)
          IN  /\ acc' = ProcessLines(acc, lines)
              /\ pending' = d.pending
              /\ seen' = seen \o Outcomes(lines)
              /\ pos' = pos + n
    /\ lateReads' = IF aborted /\ lateReads < 2 THEN lateReads + 1 ELSE lateReads
    /\ UNCHANGED <<stream, rpc, locked, doc, now, t0, nvars, hvars>>

\* Lines 148, 217-243: the read reports done; the lock is released and the
\* document is built.
ReadDone ==
    /\ rpc = "reading"
    /\ pos = Len(stream)
    /\ \E elapsed \in 0..1 :
          /\ now' = now + elapsed
          /\ doc' = BuildDoc(acc, now + elapsed)
    /\ locked' = FALSE
    /\ rpc' = "returned"
    /\ UNCHANGED <<stream, pos, pending, acc, t0, seen, lateReads, nvars, hvars>>

\* ReadFails without the finally of lines 217-219.
ReadFailsNoRelease ==
    /\ rpc = "reading"
    /\ rpc' = "threw"
    /\ pending' = <<>>
    /\ acc' = InitAcc(0)
    /\ seen' = <<>>
    /\ UNCHANGED <<stream, pos, locked, doc, now, t0, lateReads, nvars, hvars>>

\* Lines 147, 217-219: the read rejects (the upstream body errors); the lock
\* is released and the error leaves collectStreamData, whose locals are gone.
ReadFails ==
    /\ rpc = "reading"
    /\ locked' = FALSE
    /\ rpc' = "threw"
    /\ pending' = <<>>
    /\ acc' = InitAcc(0)
    /\ seen' = <<>>
    /\ UNCHANGED <<stream, pos, doc, now, t0, lateReads, nvars, hvars>>

InitReducer ==
    /\ nmessages = NoMessageList
    /\ npc = "idle"
    /\ nresult = <<>>
    /\ stream \in Streams
    /\ pos = 0
    /\ rpc = "call"
    /\ locked = FALSE
    /\ pending = <<>>
    /\ acc = InitAcc(0)
    /\ doc = NoDoc
    /\ now \in {1999}
    /\ t0 = 0
    /\ seen = <<>>
    /\ lateReads = 0
    /\ HandlerIdle

NextReducer == CollectStart \/ Read \/ ReadDone \/ ReadFails

SpecReducer == InitReducer /\ [][NextReducer]_vars

\* collectStreamData is called with one of `streams`.
InitOn(streams) ==
    /\ nmessages = NoMessageList
    /\ npc = "idle"
    /\ nresult = <<>>
    /\ stream \in streams
    /\ pos = 0
    /\ rpc = "call"
    /\ locked = FALSE
    /\ pending = <<>>
    /\ acc = InitAcc(0)
    /\ doc = NoDoc
    /\ now \in {1999}
    /\ t0 = 0
    /\ seen = <<>>
    /\ lateReads = 0
    /\ HandlerIdle

\* The reducer on streams of metadata.
InitMetadata == InitOn(MetaStreams)

NextMetadata == CollectStart \/ Read \/ ReadDone \/ ReadFails

SpecMetadata == InitMetadata /\ [][NextMetadata]_vars

\* The reducer on streams of tool-call deltas.
InitToolCalls == InitOn(ToolStreams)

NextToolCalls == CollectStart \/ Read \/ ReadDone \/ ReadFails

SpecToolCalls == InitToolCalls /\ [][NextToolCalls]_vars

\* --------------------------------------------- the normalizer on its own
InitNormalizer ==
    /\ nmessages \in MessageLists
    /\ npc = "call"
    /\ nresult = <<>>
    /\ ReducerIdle
    /\ HandlerIdle

\* handleChatMessage(messages): returns the normalized list, or throws.
Normalize ==
    /\ npc = "call"
    /\ LET r == handleChatMessage(nmessages) IN
           /\ npc' = IF r.threw THEN "threw" ELSE "returned"
           /\ nresult' = r.value
    /\ UNCHANGED <<nmessages, rvars, hvars>>

NextNormalizer == Normalize

SpecNormalizer == InitNormalizer /\ [][NextNormalizer]_vars

\* ------------------------------------------------------- handleRequest
\* pathname.includes(part): the segments of `part` in a row in `pathname`
Includes(pathname, part) ==
    \E k \in 0..(Len(pathname) - Len(part)) :
        SubSeq(pathname, k + 1, k + Len(part)) = part

\* Lines 7-9
modelMapping == (<<"claude-4.0">> :> Str(<<"default-model">>))

\* A JavaScript function, as a value.
Func == [t |-> "function", s |-> <<>>, n |-> 0]

\* modelMapping is an object literal: besides its own key, modelMapping[key]
\* finds the properties every object inherits from Object.prototype, which
\* are functions.
InheritedKeys == { <<"constructor">>, <<"toString">>, <<"valueOf">> }

\* modelMapping[key]
Lookup(key) ==
    IF key \in DOMAIN modelMapping THEN modelMapping[key]
    ELSE IF key \in InheritedKeys THEN Func
    ELSE Undef

\* modelMapping[body.model] || body.model
MappedModel(model) ==
    LET found == IF model.t = "string" THEN Lookup(model.s) ELSE Undef IN
    IF Truthy(found) THEN found ELSE model

\* JSON.stringify leaves out a member whose value is a function or undefined.
Stringified(v) == IF v.t = "function" THEN Undef ELSE v

\* Lines 29-31: the first truthy of the two headers (the third get reads the
\* first header again, header names being case-insensitive).
Token(headers) ==
    IF Truthy(headers.authorization) THEN headers.authorization
    ELSE IF Truthy(headers.xApiKey) THEN headers.xApiKey
    ELSE headers.authorization

\* The JSON error envelope of lines 34-43, 75-84, 115-124.
ErrorResponse(status, message, type) ==
    [status |-> status, kind |-> "error", message |-> message, type |-> type]
Plain(status, kind) == [status |-> status, kind |-> kind, message |-> <<>>, type |-> ""]

\* Lines 16-62 and 113-125: handleRequest up to the call of fetch: the
\* response it returns without calling the upstream, or "fetch".
BeforeFetch(req) ==
    IF req.method # "POST" THEN Plain(405, "text")
    ELSE IF ~Includes(req.pathname, <<"chat", "completions">>) THEN Plain(404, "text")
    ELSE IF req.body.t = "invalid"
    THEN ErrorResponse(500, <<"SyntaxError">>, "server_error")
    ELSE IF req.body.t = "null"
    THEN ErrorResponse(500, <<"TypeError">>, "server_error")
    ELSE IF ~Truthy(Token(req.headers))
    THEN ErrorResponse(401, <<"Authorization header is required">>, "auth_error")
    ELSE IF handleChatMessage(req.body.messages).threw
    THEN ErrorResponse(500, <<"TypeError">>, "server_error")
    ELSE Plain(0, "fetch")

\* Lines 388-403: what handler answers by itself, or "handleRequest".
Route(req) ==
    IF req.method = "OPTIONS" THEN Plain(200, "cors")
    ELSE IF Includes(req.pathname, <<"models">>) /\ req.method = "GET"
    THEN Plain(200, "models")
    ELSE Plain(0, "handleRequest")

\* Lines 53-62: the request handed to fetch.
Outbound(req) ==
    [Authorization |-> Token(req.headers),
     stream |-> True,
     messages |-> handleChatMessage(req.body.messages).value,
     model |-> Stringified(MappedModel(req.body.model))]

\* Lines 388-403, 16-62: the request arrives; handler answers it, or
\* handleRequest answers it, or handleRequest calls the upstream.
Receive ==
    /\ hpc = "start"
    /\ LET r == IF Route(request).kind = "handleRequest"
                THEN BeforeFetch(request) ELSE Route(request)
       IN  IF r.kind = "fetch"
           THEN /\ hpc' = "fetching"
                /\ isStream' = (request.body.stream = True)
                /\ outbound' = Outbound(request)
                /\ UNCHANGED response
           ELSE /\ hpc' = "responded"
                /\ response' = r
                /\ UNCHANGED <<isStream, outbound>>
    /\ UNCHANGED <<request, aborted, nvars, rvars>>

\* The body of an upstream error: no JSON, or JSON with error.message and
\* message (undefined when absent).
ErrorDatas ==
    { [json |-> FALSE, errorMessage |-> Undef, message |-> Undef],
      [json |-> TRUE, errorMessage |-> Str(<<"quota">>), message |-> Str(<<"m">>)],
      [json |-> TRUE, errorMessage |-> Undef, message |-> Str(<<"m">>)],
      [json |-> TRUE, errorMessage |-> Undef, message |-> Undef] }

\* Lines 67-73
ErrorMessage(errorData) ==
    IF ~errorData.json THEN <<"API request failed">>
    ELSE IF Truthy(errorData.errorMessage) THEN errorData.errorMessage.s
    ELSE IF Truthy(errorData.message) THEN errorData.message.s
    ELSE <<"API request failed">>

\* Lines 53, 113-125: fetch rejects.
FetchRejects ==
    /\ hpc = "fetching"
    /\ hpc' = "responded"
    /\ response' = ErrorResponse(500, <<"fetch failed">>, "server_error")
    /\ UNCHANGED <<request, isStream, outbound, aborted, nvars, rvars>>

\* Lines 64-85: the upstream answers with a status that is not 2xx.
UpstreamError ==
    /\ hpc = "fetching"
    /\ \E status \in {429, 500}, errorData \in ErrorDatas :
          response' = ErrorResponse(status, ErrorMessage(errorData), "server_error")
    /\ hpc' = "responded"
    /\ UNCHANGED <<request, isStream, outbound, aborted, nvars, rvars>>

\* The bodies the upstream answers with in Spec.
UpstreamBodies ==
    { Flatten(<<l>>) : l \in LinePalette }
    \cup { Flatten(<<DataLine("content:Hel"), DataLine("content:lo"), DoneLine>>) }

\* Lines 88-99: the upstream answers 2xx and the client asked for a stream:
\* the upstream body is the body of the response.
PassThrough ==
    /\ hpc = "fetching"
    /\ isStream
    /\ \E body \in UpstreamBodies : stream' = body
    /\ response' = Plain(200, "stream")
    /\ hpc' = "responded"
    /\ UNCHANGED <<request, isStream, outbound, aborted, nvars, pos, rpc, locked,
                   pending, acc, doc, now, t0, seen, lateReads>>

\* Collect without the test of isStream at line 88.
CollectAlways ==
    /\ hpc = "fetching"
    /\ \E body \in UpstreamBodies : stream' = body
    /\ rpc' = "call"
    /\ hpc' = "collecting"
    /\ UNCHANGED <<request, isStream, outbound, response, aborted, nvars, pos,
                   locked, pending, acc, doc, now, t0, seen, lateReads>>

\* Lines 100-102: the upstream answers 2xx and the client asked for no
\* stream: collectStreamData is called with the upstream body.
Collect ==
    /\ hpc = "fetching"
    /\ ~isStream
    /\ \E body \in UpstreamBodies : stream' = body
    /\ rpc' = "call"
    /\ hpc' = "collecting"
    /\ UNCHANGED <<request, isStream, outbound, response, aborted, nvars, pos,
                   locked, pending, acc, doc, now, t0, seen, lateReads>>

\* Lines 102-110: collectStreamData returned; its document is the response.
CollectReturns ==
    /\ hpc = "collecting"
    /\ rpc = "returned"
    /\ response' = Plain(200, "json")
    /\ hpc' = "responded"
    /\ UNCHANGED <<request, isStream, outbound, aborted, nvars, rvars>>

\* Lines 102, 113-125: collectStreamData threw.
CollectThrows ==
    /\ hpc = "collecting"
    /\ rpc = "threw"
    /\ response' = ErrorResponse(500, <<"read failed">>, "server_error")
    /\ hpc' = "responded"
    /\ UNCHANGED <<request, isStream, outbound, aborted, nvars, rvars>>

\* The client goes away while its request is being served: request.signal
\* aborts.  handleRequest hands the signal neither to fetch (lines 53-62) nor
\* to collectStreamData (line 102), and the loop of lines 146-216 reads no
\* signal: the abort changes nothing but the signal.
Abort ==
    /\ hpc \in {"fetching", "collecting"}
    /\ ~aborted
    /\ aborted' = TRUE
    /\ UNCHANGED <<request, hpc, isStream, outbound, response, lateReads, nvars,
                   stream, pos, rpc, locked, pending, acc, doc, now, t0, seen>>

\* ------------------------------------------------- inputs of the handler
HeaderValues == { Null, Str(<<>>), Str(<<"Bearer k">>) }
Headers == [authorization : HeaderValues, xApiKey : { Null, Str(<<"key">>) }]

RequestMessages ==
    { NoMessageList,
      MessageList(<<Message(Str(<<"user">>), Scalar(Str(<<" ", "a", " ">>)))>>),
      MessageList(<<Message(Str(<<"user">>),
                            Arr(<<Item(Str(<<"text">>), Num(7))>>))>>) }

Bodies ==
    { NoJsonBody, NullBody }
    \cup { Body(f, m, d) :
             f \in {Undef, True, False},
             m \in RequestMessages,
             d \in {Undef, Str(<<"claude-4.0">>), Str(<<"gpt-5">>),
                    Str(<<"constructor">>)} }

Requests ==
    { Request(m, p, h, b) :
        m \in {"POST", "GET", "OPTIONS"},
        p \in {<<"v1", "chat", "completions">>, <<"v1", "models">>, <<"health">>},
        h \in Headers,
        b \in Bodies }

Init ==
    /\ nmessages = NoMessageList
    /\ npc = "idle"
    /\ nresult = <<>>
    /\ stream = <<>>
    /\ pos = 0
    /\ rpc = "idle"
    /\ locked = FALSE
    /\ pending = <<>>
    /\ acc = InitAcc(0)
    /\ doc = NoDoc
    /\ now \in {1999}
    /\ t0 = 0
    /\ seen = <<>>
    /\ lateReads = 0
    /\ request \in Requests
    /\ hpc = "start"
    /\ isStream = FALSE
    /\ outbound = NoOutbound
    /\ response = NoResponse
    /\ aborted = FALSE

Next ==
    \/ Receive
    \/ FetchRejects
    \/ UpstreamError
    \/ PassThrough
    \/ Collect
    \/ CollectStart
    \/ Read
    \/ ReadDone
    \/ ReadFails
    \/ CollectReturns
    \/ CollectThrows
    \/ Abort

Spec == Init /\ [][Next]_vars

\* =================================================================== claims
\* ------------------------------------------------- helpers of the claims
\* The objects the loop merged, in the order it met them.
RECURSIVE MergedOf(_)
MergedOf(outcomes) ==
    IF outcomes = <<>> THEN <<>>
    ELSE IF Head(outcomes).kind = "merged"
         THEN <<Head(outcomes).parsed>> \o MergedOf(Tail(outcomes))
         ELSE MergedOf(Tail(outcomes))

RECURSIVE FoldParsed(_, _)
FoldParsed(a, objs) ==
    IF objs = <<>> THEN a ELSE FoldParsed(ApplyParsed(a, Head(objs)), Tail(objs))

\* choices[0].delta.content of a parsed object, "" when it has none.
ContentOf(parsed) ==
    IF /\ Len(parsed.choices) > 0
       /\ parsed.choices[1].t = "object"
       /\ parsed.choices[1].delta.t = "object"
       /\ parsed.choices[1].delta.content.t = "string"
    THEN parsed.choices[1].delta.content.s ELSE <<>>

\* choices[0].delta.tool_calls of a parsed object, empty when it has none.
ToolCallsOf(parsed) ==
    IF /\ Len(parsed.choices) > 0
       /\ parsed.choices[1].t = "object"
       /\ parsed.choices[1].delta.t = "object"
    THEN parsed.choices[1].delta.tool_calls ELSE <<>>

RECURSIVE ConcatContent(_)
ConcatContent(objs) ==
    IF objs = <<>> THEN <<>> ELSE ContentOf(Head(objs)) \o ConcatContent(Tail(objs))

RECURSIVE ConcatToolCalls(_)
ConcatToolCalls(objs) ==
    IF objs = <<>> THEN <<>> ELSE ToolCallsOf(Head(objs)) \o ConcatToolCalls(Tail(objs))

\* An output content as the normalizer promises it: a non-empty array of
\* text blocks, each text a non-empty string with nothing left to trim.
ValidBlock(item) ==
    /\ item.t = "object"
    /\ item.type = Str(<<"text">>)
    /\ item.text.t = "string"
    /\ item.text.s # <<>>
    /\ Trim(item.text.s) = item.text.s

\* C2 (as claimed): every message handleChatMessage returns has for content a
\* non-empty array of text blocks whose text is non-empty and trimmed, also
\* when the input content is neither a string nor an array.
C2_OutputContentValid ==
    npc = "returned" =>
        \A i \in 1..Len(nresult) :
            /\ nresult[i].content.t = "array"
            /\ Len(nresult[i].content.items) > 0
            /\ \A j \in 1..Len(nresult[i].content.items) :
                   ValidBlock(nresult[i].content.items[j])

\* C3 (as claimed): handleChatMessage raises no error, whatever the messages
\* of the sequence it is given.
C3_NeverThrows == (npc # "call" /\ nmessages.t = "array") => npc = "returned"

\* The messages that survive the loop of lines 250-288.
Survivors == FixedMessages(nmessages.list, <<>>).value

\* C4: when exactly one message survives the filtering and its role is not
\* "system", the output is the default system message, then that message.
C4_SoleSurvivorGetsSystem ==
    (npc = "returned" /\ Len(Survivors) = 1 /\ Survivors[1].role # Str(<<"system">>))
        => nresult = <<DefaultSystemMessage, Survivors[1]>>

\* two messages in, one of them dropped, the other from a user
C4_Witness ==
    /\ npc = "returned"
    /\ Len(nmessages.list) = 2
    /\ Len(Survivors) = 1
    /\ Survivors[1].role = Str(<<"user">>)
    /\ Len(nresult) = 2
    /\ nresult[1].role = Str(<<"system">>)

Returned == rpc = "returned"
FinalMessage == doc.choices[1].message

\* The parts of a document that claim C1 lists.
DocView(d) ==
    [content |-> d.choices[1].message.content,
     tool_calls |-> d.choices[1].message.tool_calls,
     finish_reason |-> d.choices[1].finish_reason,
     id |-> d.id, model |-> d.model, usage |-> d.usage]

\* The document of the same bytes delivered by one read.
OneReadDoc ==
    BuildDoc(ProcessChunk(InitAcc(t0 \div 1000), Decode(<<>>, stream).text), now)

\* C1 (as claimed): however the reads split the bytes of the stream, the
\* document has the content, tool_calls, finish_reason, id, model and usage
\* of the document that one read of the whole stream gives.
C1_ChunkingInvariant == Returned => DocView(doc) = DocView(OneReadDoc)

\* C6: the final content is the concatenation, in stream order, of the
\* delta.content of every successfully parsed `data: ` line, and null, never
\* "", when that concatenation is empty.
C6_ContentIsConcatenation ==
    Returned =>
        FinalMessage.content =
            IF ConcatContent(MergedOf(seen)) = <<>> THEN Null
            ELSE Str(ConcatContent(MergedOf(seen)))

C6_Witness ==
    /\ Returned
    /\ Len(MergedOf(seen)) >= 2
    /\ FinalMessage.content = Str(<<"Hel", "lo">>)

C6_NullWitness ==
    /\ Returned
    /\ Len(MergedOf(seen)) >= 1
    /\ FinalMessage.content = Null

\* C7: a `data: ` line that does not parse contributes nothing and does not
\* stop the fold: the document is the one the merged lines alone give, the
\* document of the stream without the malformed lines.
C7_MalformedLineIgnored ==
    Returned => doc = BuildDoc(FoldParsed(InitAcc(t0 \div 1000), MergedOf(seen)), now)

\* a malformed line between two content deltas, each read delivering a line
C7_Witness ==
    /\ Returned
    /\ stream = Flatten(<<DataLine("content:Hel"), JunkLine, DataLine("content:lo")>>)
    /\ Len(seen) = 3
    /\ seen[1].kind = "merged"
    /\ seen[2].kind = "failed"
    /\ seen[3].kind = "merged"
    /\ FinalMessage.content = Str(<<"Hel", "lo">>)

\* The parsed objects cut down to their content, and to their tool calls.
RECURSIVE ContentDeltasOf(_)
ContentDeltasOf(objs) ==
    IF objs = <<>> THEN <<>>
    ELSE IF ContentOf(Head(objs)) # <<>>
         THEN <<ContentDelta(ContentOf(Head(objs)))>> \o ContentDeltasOf(Tail(objs))
         ELSE ContentDeltasOf(Tail(objs))

RECURSIVE ToolDeltasOf(_)
ToolDeltasOf(objs) ==
    IF objs = <<>> THEN <<>>
    ELSE IF ToolCallsOf(Head(objs)) # <<>>
         THEN <<ToolDelta(ToolCallsOf(Head(objs)))>> \o ToolDeltasOf(Tail(objs))
         ELSE ToolDeltasOf(Tail(objs))

\* The merged deltas in another interleaving: every content delta first,
\* then every tool-call delta.
Uninterleaved ==
    FoldParsed(InitAcc(t0 \div 1000),
               ContentDeltasOf(MergedOf(seen))
                   \o ToolDeltasOf(MergedOf(seen)))

\* C8: the final content and tool_calls do not depend on how content deltas
\* and tool-call deltas are interleaved: they are those of the same content
\* deltas followed by the same tool-call deltas.
C8_InterleavingIndependent ==
    Returned =>
        /\ FinalMessage.content = BuildDoc(Uninterleaved, now).choices[1].message.content
        /\ FinalMessage.tool_calls =
               BuildDoc(Uninterleaved, now).choices[1].message.tool_calls

\* content, tool call, content: merged in an order that is not the sorted one
C8_Witness ==
    /\ Returned
    /\ Len(MergedOf(seen)) = 3
    /\ ContentOf(MergedOf(seen)[1]) # <<>>
    /\ ToolCallsOf(MergedOf(seen)[2]) # <<>>
    /\ ContentOf(MergedOf(seen)[3]) # <<>>
    /\ FinalMessage.tool_calls.t = "array"

\* The tool-call deltas at index i, in the order they were merged.
IndexOf(toolCall) == IF toolCall.index.t = "number" THEN toolCall.index.n ELSE 0
IsStart(toolCall) ==
    /\ toolCall.id.t = "string" /\ toolCall.id.s # <<>>
    /\ toolCall.type.t = "string" /\ toolCall.type.s # <<>>
    /\ toolCall.function.t = "object"

ToolLog == ConcatToolCalls(MergedOf(seen))
LastStart(i) ==
    CHOOSE k \in 1..Len(ToolLog) :
        /\ IndexOf(ToolLog[k]) = i /\ IsStart(ToolLog[k])
        /\ \A j \in (k + 1)..Len(ToolLog) :
               ~(IndexOf(ToolLog[j]) = i /\ IsStart(ToolLog[j]))
HasStart(i) == \E k \in 1..Len(ToolLog) : IndexOf(ToolLog[k]) = i /\ IsStart(ToolLog[k])

\* The argument fragments at index i from the k-th delta on.
RECURSIVE Fragments(_, _)
Fragments(i, k) ==
    IF k > Len(ToolLog) THEN <<>>
    ELSE IF /\ IndexOf(ToolLog[k]) = i
            /\ ToolLog[k].function.t = "object"
            /\ ToolLog[k].function.arguments.t = "string"
         THEN ToolLog[k].function.arguments.s \o Fragments(i, k + 1)
         ELSE Fragments(i, k + 1)

\* The tool call a lone start delta with all the arguments gives.
Unfragmented(i) ==
    ApplyToolCall(<<>>,
        ToolCall(Num(i), ToolLog[LastStart(i)].id, ToolLog[LastStart(i)].type,
                 Function(ToolLog[LastStart(i)].function.name,
                          Str(Fragments(i, LastStart(i))))))[i + 1]

\* C5: at every index with a start delta, the final tool call has the id and
\* type of the start delta, and its arguments are the fragments of the start
\* delta and of the continuation deltas after it, concatenated in delta
\* order: the arguments of one start delta carrying them whole.
C5_FragmentsConcatenate ==
    Returned =>
        \A i \in 0..MaxLines :
            HasStart(i) =>
                /\ FinalMessage.tool_calls.t = "array"
                /\ Len(FinalMessage.tool_calls.items) >= i + 1
                /\ FinalMessage.tool_calls.items[i + 1].id = Unfragmented(i).id
                /\ FinalMessage.tool_calls.items[i + 1].type = Unfragmented(i).type
                /\ FinalMessage.tool_calls.items[i + 1].function.arguments =
                       Unfragmented(i).function.arguments
                /\ FinalMessage.tool_calls.items[i + 1].function.arguments =
                       Str(Fragments(i, LastStart(i)))

\* start deltas at two indices and two continuation deltas at each
C5_Witness ==
    /\ Returned
    /\ Len(ToolLog) = 6
    /\ IsStart(ToolLog[1]) /\ IsStart(ToolLog[2])
    /\ \A k \in 3..6 : ~IsStart(ToolLog[k])
    /\ FinalMessage.tool_calls.items[1].function.arguments =
           Str(<<"{\"a\":", "1}", "1}">>)
    /\ FinalMessage.tool_calls.items[1].id = Str(<<"call_1">>)
    /\ FinalMessage.tool_calls.items[2].function.arguments = Str(<<"{}", "{}">>)
    /\ FinalMessage.tool_calls.items[2].id = Str(<<"call_2">>)

\* C9: the stream that is the line `data: [DONE]` alone gives content null,
\* no tool_calls, finish_reason "stop", a usage of zeros and the id
\* chatcmpl-<milliseconds at return>.
C9_DoneOnly ==
    (Returned /\ stream \in {DoneLine, Flatten(<<DoneLine>>)}) =>
        /\ FinalMessage.content = Null
        /\ FinalMessage.tool_calls.t = "undefined"
        /\ doc.choices[1].finish_reason = Str(<<"stop">>)
        /\ doc.usage = Usage(0, 0, 0)
        /\ doc.id = Str(<<"chatcmpl-", ToString(now)>>)
        /\ Len(doc.choices) = 1

\* the marker was met whole and skipped
C9_Witness ==
    /\ Returned
    /\ stream = DoneLine
    /\ Len(seen) = 1
    /\ seen[1].kind = "done"

\* The outcomes from the first [DONE] marker on.
RECURSIVE AfterDone(_)
AfterDone(outcomes) ==
    IF outcomes = <<>> THEN <<>>
    ELSE IF Head(outcomes).kind = "done" THEN Tail(outcomes)
    ELSE AfterDone(Tail(outcomes))

\* The outcomes without the markers.
RECURSIVE WithoutDone(_)
WithoutDone(outcomes) ==
    IF outcomes = <<>> THEN <<>>
    ELSE IF Head(outcomes).kind = "done" THEN WithoutDone(Tail(outcomes))
    ELSE <<Head(outcomes)>> \o WithoutDone(Tail(outcomes))

\* C13: the [DONE] marker does not end the read loop: collectStreamData
\* returns only when every byte of the stream has been read, and while it
\* reads and when it returns the accumulator is the fold of every parsed
\* line met, those after a marker included, the same as for the lines with
\* the markers taken out.
C13_DoneDoesNotStop ==
    /\ Returned => pos = Len(stream)
    /\ rpc \in {"reading", "returned"} =>
           acc = FoldParsed(InitAcc(t0 \div 1000), MergedOf(WithoutDone(seen)))
    /\ Returned =>
           doc = BuildDoc(FoldParsed(InitAcc(t0 \div 1000), MergedOf(WithoutDone(seen))),
                          now)

\* a content delta, the marker, a content delta: both deltas in the content
C13_Witness ==
    /\ Returned
    /\ Len(seen) = 3
    /\ seen[1].kind = "merged"
    /\ seen[2].kind = "done"
    /\ seen[3].kind = "merged"
    /\ Len(MergedOf(AfterDone(seen))) = 1
    /\ ContentOf(seen[3].parsed) = <<"lo">>
    /\ FinalMessage.content = Str(<<"Hel", "lo">>)

\* A tool-call delta that has an id, a type and a function, whatever the id
\* and the type are.
CarriesTriple(toolCall) ==
    /\ toolCall.id.t \notin {"undefined", "null"}
    /\ toolCall.type.t \notin {"undefined", "null"}
    /\ toolCall.function.t = "object"

\* The indices of the tool-call deltas merged so far.
ToolIndexes == { IndexOf(ToolLog[k]) : k \in 1..Len(ToolLog) }

\* The place in ToolLog of the last delta at index i.
LastAt(i) ==
    CHOOSE k \in 1..Len(ToolLog) :
        /\ IndexOf(ToolLog[k]) = i
        /\ \A j \in (k + 1)..Len(ToolLog) : IndexOf(ToolLog[j]) # i

\* v, or "" for a v that is absent
EmptyIfAbsent(v) == IF v.t \in {"undefined", "null"} THEN Str(<<>>) ELSE v

\* The tool call a start delta opens.
Opened(toolCall) ==
    [t |-> "object", id |-> toolCall.id, type |-> toolCall.type,
     function |-> Function(EmptyIfAbsent(toolCall.function.name),
                           EmptyIfAbsent(toolCall.function.arguments))]

\* C14 (as claimed): once a delta with id, type and function has been merged
\* at an index (0 for a delta without index), the tool call at that index is
\* the one that delta opens: its id, type, name and arguments, "" for a
\* name or arguments it lacks, and nothing of what was gathered there before.
C14_TripleStartsAfresh ==
    rpc \in {"reading", "returned"} =>
        \A i \in ToolIndexes :
            CarriesTriple(ToolLog[LastAt(i)]) =>
                /\ HasAt(acc.toolCalls, i)
                /\ acc.toolCalls[i + 1] = Opened(ToolLog[LastAt(i)])

\* C14 (amended): the same for a delta whose id and type are non-empty
\* strings; a delta with an empty id or type opens nothing and is merged as a
\* fragment.
C14_NonEmptyTripleStartsAfresh ==
    rpc \in {"reading", "returned"} =>
        \A i \in ToolIndexes :
            IsStart(ToolLog[LastAt(i)]) =>
                /\ HasAt(acc.toolCalls, i)
                /\ acc.toolCalls[i + 1] = Opened(ToolLog[LastAt(i)])

\* a start without index, a fragment appended at index 0, then a start at
\* index 0 without name and arguments: the tool call is the second start's
C14_Witness ==
    /\ Returned
    /\ Len(ToolLog) = 4
    /\ IsStart(ToolLog[1]) /\ ToolLog[1].index = Undef
    /\ ~IsStart(ToolLog[2]) /\ IndexOf(ToolLog[2]) = 0
    /\ IsStart(ToolLog[4]) /\ IndexOf(ToolLog[4]) = 0
    /\ FinalMessage.tool_calls.items[1] =
           [t |-> "object", id |-> Str(<<"call_b">>), type |-> Str(<<"function">>),
            function |-> Function(Str(<<>>), Str(<<>>))]

\* The k-th merged tool-call delta has a function, lacks an id or a type, and
\* no start delta came before it at its index.
Orphan(k) ==
    /\ ToolLog[k].function.t = "object"
    /\ ~CarriesTriple(ToolLog[k])
    /\ \A j \in 1..(k - 1) :
           ~(IndexOf(ToolLog[j]) = IndexOf(ToolLog[k]) /\ IsStart(ToolLog[j]))

\* The merged tool-call deltas from the k-th on, the orphans left out.
RECURSIVE WithoutOrphans(_)
WithoutOrphans(k) ==
    IF k > Len(ToolLog) THEN <<>>
    ELSE IF Orphan(k) THEN WithoutOrphans(k + 1)
    ELSE <<ToolLog[k]>> \o WithoutOrphans(k + 1)

\* C15: a delta with a function but without the id, type, function triple,
\* at an index where no tool call has been started, changes nothing: the
\* tool calls are those of the same deltas with these left out (so its
\* fragment is in no later tool call and no other index is touched), an
\* index without a start delta holds no tool call, and the rest of the
\* accumulator is as the other lines left it.
C15_OrphanFragmentIgnored ==
    rpc \in {"reading", "returned"} =>
        /\ acc.toolCalls = ApplyToolCalls(<<>>, WithoutOrphans(1))
        /\ \A i \in ToolIndexes : ~HasStart(i) => ~HasAt(acc.toolCalls, i)
        /\ [acc EXCEPT !.toolCalls = <<>>] = InitAcc(t0 \div 1000)

\* a start at index 0, then fragments for index 0 and for the unstarted
\* index 2, then a start at index 2: the fragment for index 2 is nowhere
C15_Witness ==
    /\ Returned
    /\ Len(ToolLog) = 4
    /\ IsStart(ToolLog[1]) /\ IndexOf(ToolLog[1]) = 0
    /\ ~Orphan(2)
    /\ Orphan(3) /\ IndexOf(ToolLog[3]) = 2
    /\ IsStart(ToolLog[4]) /\ IndexOf(ToolLog[4]) = 2
    /\ FinalMessage.tool_calls.items[1].function.arguments = Str(<<"{", "x">>)
    /\ FinalMessage.tool_calls.items[3] = Opened(ToolLog[4])
    /\ FinalMessage.tool_calls.items[3].function.arguments = Str(<<"[">>)

\* The indices that received a start delta, and the k-th smallest of them.
StartedIndexes == { i \in ToolIndexes : HasStart(i) }
KthStarted(k) ==
    CHOOSE i \in StartedIndexes :
        Cardinality({ j \in StartedIndexes : j < i }) = k - 1

\* C16 (as claimed): the document has no tool_calls when no tool call was
\* started; otherwise tool_calls holds one entry per index that received a
\* start delta, in ascending order of index, each the tool call gathered at
\* that index, and no hole or null among them, whatever the indices.
C16_ToolCallsArePopulated ==
    Returned =>
        IF StartedIndexes = {} THEN FinalMessage.tool_calls.t = "undefined"
        ELSE /\ FinalMessage.tool_calls.t = "array"
             /\ Len(FinalMessage.tool_calls.items) = Cardinality(StartedIndexes)
             /\ \A k \in 1..Len(FinalMessage.tool_calls.items) :
                    /\ FinalMessage.tool_calls.items[k].t = "object"
                    /\ FinalMessage.tool_calls.items[k] =
                           acc.toolCalls[KthStarted(k) + 1]

\* choices[0].finish_reason of a parsed object, undefined when it has none.
FinishReasonOf(parsed) ==
    IF Len(parsed.choices) > 0 /\ parsed.choices[1].t = "object"
    THEN parsed.choices[1].finish_reason ELSE Undef

\* A value a delta carries: neither absent nor null.
Carried(v) == v.t \notin {"undefined", "null"}

\* A carried value other than "" and 0.
CarriedNonEmpty(v) ==
    /\ Carried(v)
    /\ v.t = "string" => v.s # <<>>
    /\ v.t = "number" => v.n # 0

\* The last of `values` that is carried, `default` when none is.
RECURSIVE LastCarried(_, _)
LastCarried(values, default) ==
    IF values = <<>> THEN default
    ELSE IF Carried(values[Len(values)]) THEN values[Len(values)]
    ELSE LastCarried(SubSeq(values, 1, Len(values) - 1), default)

\* The last of `values` that is carried and not empty, `default` when none is.
RECURSIVE LastNonEmpty(_, _)
LastNonEmpty(values, default) ==
    IF values = <<>> THEN default
    ELSE IF CarriedNonEmpty(values[Len(values)]) THEN values[Len(values)]
    ELSE LastNonEmpty(SubSeq(values, 1, Len(values) - 1), default)

\* The last usage object among the merged deltas, zeros when there is none.
RECURSIVE LastUsage(_)
LastUsage(objs) ==
    IF objs = <<>> THEN Usage(0, 0, 0)
    ELSE IF objs[Len(objs)].usage.t = "object" THEN objs[Len(objs)].usage
    ELSE LastUsage(SubSeq(objs, 1, Len(objs) - 1))

Merged == MergedOf(seen)
IdsOf == [k \in 1..Len(Merged) |-> Merged[k].id]
ModelsOf == [k \in 1..Len(Merged) |-> Merged[k].model]
CreatedsOf == [k \in 1..Len(Merged) |-> Merged[k].created]
FinishReasonsOf == [k \in 1..Len(Merged) |-> FinishReasonOf(Merged[k])]

\* C17 (as claimed): id, model, created, usage and finish_reason of the
\* document are those of the last parsed delta that carries the field, the
\* usage whole; without such a delta finish_reason is "stop", usage is zeros,
\* id is chatcmpl-<milliseconds>, model is gpt-3.5-turbo and created is the
\* second of the call.  (An id or model that ends empty gets the fallback.)
C17_LastWriteWins ==
    Returned =>
        /\ doc.id = IF LastCarried(IdsOf, Str(<<>>)) = Str(<<>>)
                    THEN Str(<<"chatcmpl-", ToString(now)>>)
                    ELSE LastCarried(IdsOf, Str(<<>>))
        /\ doc.model = IF LastCarried(ModelsOf, Str(<<>>)) = Str(<<>>)
                       THEN Str(<<"gpt-3.5-turbo">>)
                       ELSE LastCarried(ModelsOf, Str(<<>>))
        /\ doc.created = LastCarried(CreatedsOf, Num(t0 \div 1000))
        /\ doc.usage = LastUsage(Merged)
        /\ doc.choices[1].finish_reason = LastCarried(FinishReasonsOf, Str(<<"stop">>))

\* C17 (amended): the same with "carries a non-empty value": a delta whose
\* id, model or finish_reason is "" or null, or whose created is 0, leaves
\* that field as it was.
C17_LastNonEmptyWriteWins ==
    Returned =>
        /\ doc.id = LastNonEmpty(IdsOf, Str(<<"chatcmpl-", ToString(now)>>))
        /\ doc.model = LastNonEmpty(ModelsOf, Str(<<"gpt-3.5-turbo">>))
        /\ doc.created = LastNonEmpty(CreatedsOf, Num(t0 \div 1000))
        /\ doc.usage = LastUsage(Merged)
        /\ doc.choices[1].finish_reason = LastNonEmpty(FinishReasonsOf, Str(<<"stop">>))

\* two deltas with an id and a usage, the second without model, created and
\* finish_reason, then a delta with none of the fields
C17_Witness ==
    /\ Returned
    /\ Len(Merged) = 3
    /\ Merged[1].id = Str(<<"cmpl-9">>)
    /\ Merged[2].id = Str(<<"cmpl-8">>)
    /\ Merged[3].id = Undef
    /\ doc.id = Str(<<"cmpl-8">>)
    /\ doc.model = Str(<<"m1">>)
    /\ doc.created = Num(7)
    /\ doc.usage = Usage(4, 0, 4)
    /\ doc.choices[1].finish_reason = Str(<<"length">>)

\* no delta carries any of the fields: the defaults
C17_DefaultsWitness ==
    /\ Returned
    /\ Len(Merged) = 1
    /\ doc.id = Str(<<"chatcmpl-", ToString(now)>>)
    /\ doc.model = Str(<<"gpt-3.5-turbo">>)
    /\ doc.usage = Usage(0, 0, 0)
    /\ doc.choices[1].finish_reason = Str(<<"stop">>)

\* collectStreamData has returned or thrown.
Exited == rpc \in {"returned", "threw"}

\* C18: the reader taken at line 130 is held while collectStreamData reads
\* and is not held once it has returned or thrown; the lock is let go in
\* the very step that leaves the function, on both ways out, and in no
\* other step, so that it is released once.
C18_ReaderReleased ==
    /\ [](rpc = "reading" => locked)
    /\ [](Exited => ~locked)
    /\ [][(locked /\ ~locked') <=> (rpc = "reading" /\ Exited')]_vars
    /\ [][Exited => (Exited' /\ ~locked')]_vars

\* a read failed after some bytes had been delivered
C18_Witness ==
    /\ rpc = "threw"
    /\ pos > 0
    /\ pos < Len(stream)
    /\ ~locked

\* the stream ended
C18_ReturnWitness ==
    /\ rpc = "returned"
    /\ pos = Len(stream)
    /\ Len(seen) > 0
    /\ ~locked

\* C19 (as claimed): once the inbound request is aborted the read loop stops:
\* of the reads of the upstream body, at most the one that was pending at the
\* abort is delivered after it.
C19_NoReadAfterAbort == lateReads <= 1

\* A message without its content: the role and every other member.
Frame(message) == [message EXCEPT !.content = Scalar(Undef)]

\* The places in the input of the messages that survive, and the k-th of them.
KeptPlaces ==
    { k \in 1..Len(nmessages.list) : FixMessage(nmessages.list[k]).act = "push" }
KthKept(k) ==
    CHOOSE p \in KeptPlaces : Cardinality({ q \in KeptPlaces : q < p }) = k - 1

\* The output without the default system message, when one was put in front.
OutputSurvivors ==
    IF Len(nresult) = Cardinality(KeptPlaces) + 1 THEN Tail(nresult) ELSE nresult

\* C20: the output holds the surviving messages and nothing else but,
\* possibly, the default system message in front: survivor for survivor in
\* input order, each equal to its input message in role and in every member
\* but content; and the output is the survivors alone unless exactly one
\* survives and its role is not "system".
C20_OnlyRemovesAndRewrites ==
    npc = "returned" =>
        /\ Len(OutputSurvivors) = Cardinality(KeptPlaces)
        /\ \A k \in 1..Len(OutputSurvivors) :
               Frame(OutputSurvivors[k]) = Frame(nmessages.list[KthKept(k)])
        /\ (Cardinality(KeptPlaces) # 1
              \/ nmessages.list[KthKept(1)].role = Str(<<"system">>))
               => /\ Len(nresult) = Cardinality(KeptPlaces)
                  /\ nresult = Survivors

\* two survivors that differ in role and name, the content of both rewritten
C20_Witness ==
    /\ npc = "returned"
    /\ Len(nmessages.list) = 2
    /\ KeptPlaces = {1, 2}
    /\ Len(nresult) = 2
    /\ nresult[1].name = Str(<<"n1">>) /\ nresult[1].role = Str(<<"user">>)
    /\ nresult[2].name = Str(<<"n2">>) /\ nresult[2].role = Str(<<"system">>)
    /\ nresult[1].content # nmessages.list[1].content
    /\ nresult[2].content # nmessages.list[2].content

\* a dropped message, then a sole survivor that is a system message: the
\* output is that message alone
C20_RemovalWitness ==
    /\ npc = "returned"
    /\ Len(nmessages.list) = 2
    /\ KeptPlaces = {2}
    /\ nmessages.list[1].t = "object"
    /\ nmessages.list[2].role = Str(<<"system">>)
    /\ Len(nresult) = 1
    /\ nresult[1].name = Str(<<"n2">>)

\* C11 (as claimed): every request handed to the upstream has stream true
\* whatever the client's stream value, has for messages the output of
\* handleChatMessage, has for model the entry of modelMapping for a mapped
\* name and the name itself for any other, and has the client's credential
\* as it came in Authorization.
C11_OutboundRequest ==
    hpc \in {"fetching", "collecting"} =>
        /\ outbound.stream = True
        /\ outbound.messages = handleChatMessage(request.body.messages).value
        /\ outbound.model =
               IF request.body.model = Str(<<"claude-4.0">>)
               THEN Str(<<"default-model">>) ELSE request.body.model
        /\ outbound.Authorization \in
               { request.headers.authorization, request.headers.xApiKey }
        /\ outbound.Authorization.t = "string"
        /\ outbound.Authorization.s # <<>>

\* The two paths after a 2xx upstream response, state by state.
OnePath ==
    /\ (hpc = "responded" /\ response.kind = "stream") =>
           /\ request.body.stream = True
           /\ rpc = "idle" /\ ~locked /\ pos = 0 /\ seen = <<>>
           /\ doc = NoDoc
    /\ rpc # "idle" => request.body.stream # True
    /\ (hpc = "responded" /\ response.kind = "json") =>
           /\ request.body.stream # True
           /\ rpc = "returned"
    /\ (doc # NoDoc) <=> (rpc = "returned")
    /\ doc # NoDoc => pos = Len(stream)

\* C12: after a 2xx upstream response, a client body with stream === true
\* gets the upstream body and the reducer never runs; any other client body
\* has the reducer read the upstream body, the document exists only once
\* the body has been read to its end, and it is built once: a document that
\* exists is never replaced.
C12_ExactlyOnePath == []OnePath /\ [][doc # NoDoc => doc' = doc]_vars

\* the reducer path: the body read to its end in several reads, then the
\* document answered
C12_Witness ==
    /\ hpc = "responded"
    /\ response = Plain(200, "json")
    /\ request.body.stream = False
    /\ Len(seen) = 3
    /\ pos = Len(stream)
    /\ doc # NoDoc

\* the pass-through path
C12_StreamWitness ==
    /\ hpc = "responded"
    /\ response = Plain(200, "stream")
    /\ request.body.stream = True
    /\ Len(stream) > 0
    /\ rpc = "idle"

\* A POST to a path holding /chat/completions that carries neither header.
NoCredential ==
    /\ request.method = "POST"
    /\ Includes(request.pathname, <<"chat", "completions">>)
    /\ request.headers.authorization = Null
    /\ request.headers.xApiKey = Null

\* C10 (as claimed): a chat-completion request that carries no credential is
\* answered with the JSON error envelope and status 401, whatever its body.
C10_NoCredentialIs401 ==
    (hpc = "responded" /\ NoCredential) =>
        response =
            ErrorResponse(401, <<"Authorization header is required">>, "auth_error")

====
